---------------------------- MODULE Spec2Model ----------------------------
(***************************************************************************)
(* A model of align_videos_by_soundtrack/align.py: the delay estimator     *)
(* _find_delay, the two-pass orchestration SyncDetector.align/_align and   *)
(* the command line entry point main.                                      *)
(*                                                                         *)
(* Time.  Python computes seconds as floats; the model keeps every time    *)
(* exactly, as an integer number of ticks.  One tick is the largest unit   *)
(* in which one second, one coarse-pass window (1024 samples at            *)
(* 44100 // 12 Hz) and one fine-pass window (1024 samples at 48000 Hz)     *)
(* are all whole numbers, so delay / (rate / fft_bin_size) is exact.       *)
(***************************************************************************)
EXTENDS Integers, Sequences, FiniteSets, TLC

(***************************************************************************)
(* Bounds of the model.                                                    *)
(***************************************************************************)
MaxFiles == 3

(***************************************************************************)
(* Program constants.                                                      *)
(***************************************************************************)
fft_bin_size == 1024
sample_rate == 48000
DefaultMaxMisalignment == 2 * 60
FineMaxMisalignment == 15
CoarseRate == 44100 \div 12

RECURSIVE GCD(_, _)
GCD(a, b) == IF b = 0 THEN a ELSE GCD(b, a % b)

LCM(a, b) == (a * b) \div GCD(a, b)

\* ticks per second: 18375 for the rates above
TicksPerSec == LCM(CoarseRate, sample_rate) \div GCD(fft_bin_size, LCM(CoarseRate, sample_rate))

Sec(n) == n * TicksPerSec

\* length of one analysis window at a rate, in ticks (5120 coarse, 392 fine)
Window(rate) == (fft_bin_size * TicksPerSec) \div rate

(***************************************************************************)
(* Small helpers on finite sets and arrays (functions on 0..n-1).          *)
(***************************************************************************)
SetMin(S) == CHOOSE x \in S : \A y \in S : x <= y
SetMax(S) == CHOOSE x \in S : \A y \in S : y <= x
Range(f) == {f[x] : x \in DOMAIN f}
ArrMin(a) == SetMin(Range(a))
ArrMax(a) == SetMax(Range(a))
EmptyMap == [x \in {} |-> 0]

\* dict.get(key, default)
Get(map, key, default) == IF key \in DOMAIN map THEN map[key] ELSE default

(***************************************************************************)
(* _find_delay.  A frequency summary is a function from frequency bins to  *)
(* non-empty lists of window indices (a defaultdict(list) holds a key only *)
(* once something was appended to it).                                     *)
(***************************************************************************)
CommonKeys(freqs_dict_orig, freqs_dict_sample) ==
    DOMAIN freqs_dict_sample \cap DOMAIN freqs_dict_orig

\* the difference taken the other way round: x_j - x_i
KeyDeltasReversed(orig_list, sample_list) ==
    [k \in 1..(Len(sample_list) * Len(orig_list)) |->
        orig_list[((k - 1) % Len(orig_list)) + 1]
          - sample_list[((k - 1) \div Len(orig_list)) + 1]]

\* the pairs of one key, sample index outermost: delta_t = x_i - x_j
KeyDeltas(orig_list, sample_list) ==
    [k \in 1..(Len(sample_list) * Len(orig_list)) |->
        sample_list[((k - 1) \div Len(orig_list)) + 1]
          - orig_list[((k - 1) % Len(orig_list)) + 1]]

\* every delta_t in the order the loops meet it; the keys are met in
\* ascending order, the iteration order of a set of small ints
RECURSIVE DeltaList(_, _, _)
DeltaList(keys, freqs_dict_orig, freqs_dict_sample) ==
    IF keys = {} THEN <<>>
    ELSE LET key == SetMin(keys)
         IN  KeyDeltas(freqs_dict_orig[key], freqs_dict_sample[key])
               \o DeltaList(keys \ {key}, freqs_dict_orig, freqs_dict_sample)

\* t_diffs[delta]: the votes of a delta
Votes(deltas, d) == Cardinality({k \in DOMAIN deltas : deltas[k] = d})

\* the position at which the dict first got the key
FirstSeen(deltas, d) == SetMin({k \in DOMAIN deltas : deltas[k] = d})

\* sorted(items, key=count)[-1][0]: the sort is stable, so of the deltas
\* with the most votes the one inserted last wins
Winner(deltas) ==
    CHOOSE d \in Range(deltas) :
        \A e \in Range(deltas) :
            \/ Votes(deltas, e) < Votes(deltas, d)
            \/ /\ Votes(deltas, e) = Votes(deltas, d)
               /\ FirstSeen(deltas, e) <= FirstSeen(deltas, d)

\* a match asked to share two bins
NoMatchBelowTwo(freqs_dict_orig, freqs_dict_sample) ==
    Cardinality(CommonKeys(freqs_dict_orig, freqs_dict_sample)) < 2

\* the raise of _find_delay
NoMatch(freqs_dict_orig, freqs_dict_sample) ==
    CommonKeys(freqs_dict_orig, freqs_dict_sample) = {}

find_delay(freqs_dict_orig, freqs_dict_sample) ==
    Winner(DeltaList(CommonKeys(freqs_dict_orig, freqs_dict_sample),
                     freqs_dict_orig, freqs_dict_sample))

\* seconds = float(delay) / (float(rate) / float(fft_bin_size)): delay
\* windows of fft_bin_size / rate seconds each, in ticks
DelaySeconds(delay, rate) == delay * Window(rate)

(***************************************************************************)
(* The end of SyncDetector._align: re-centring on the known delays and the *)
(* min/max normalisation.  Arrays are functions on 0..n-1.                 *)
(***************************************************************************)
\* the hints left out of the offsets
RecenterSkipped(result, map) == result

\* for i in range(len(result)): if i in map: result += map[i]; result[i] -= map[i]
RECURSIVE RecenterFrom(_, _, _)
RecenterFrom(result, map, i) ==
    IF i \notin DOMAIN result THEN result
    ELSE IF i \in DOMAIN map
         THEN RecenterFrom([j \in DOMAIN result |->
                               IF j = i THEN result[j] + map[i] - map[i]
                                        ELSE result[j] + map[i]],
                           map, i + 1)
         ELSE RecenterFrom(result, map, i + 1)

Recenter(result, map) ==
    IF map # EmptyMap THEN RecenterFrom(result, map, 0) ELSE result

\* offsets taken relative to the reference file instead of the minimum
PadPreFromReference(result) == [i \in DOMAIN result |-> result[i] - result[0]]

\* offsets taken relative to the maximum
PadPreFromMax(result) == [i \in DOMAIN result |-> result[i] - ArrMax(result)]

PadPre(result) == [i \in DOMAIN result |-> result[i] - ArrMin(result)]

\* the negation dropped
TrimPreNotNegated(pad_pre) == [i \in DOMAIN pad_pre |-> pad_pre[i] - ArrMax(pad_pre)]

TrimPre(pad_pre) == [i \in DOMAIN pad_pre |-> -(pad_pre[i] - ArrMax(pad_pre))]

PadPost(pad_pre, orig_dur) ==
    LET ends == [i \in DOMAIN pad_pre |-> pad_pre[i] + orig_dur[i]]
    IN  [i \in DOMAIN pad_pre |-> ArrMax(ends) - ends[i]]

\* the end trimmed relative to the kept part of the reference
TrimPostFromReference(trim_pre, orig_dur) ==
    LET kept == [i \in DOMAIN trim_pre |-> orig_dur[i] - trim_pre[i]]
    IN  [i \in DOMAIN trim_pre |-> kept[i] - kept[0]]

TrimPost(trim_pre, orig_dur) ==
    LET kept == [i \in DOMAIN trim_pre |-> orig_dur[i] - trim_pre[i]]
    IN  [i \in DOMAIN trim_pre |-> kept[i] - ArrMin(kept)]

\* what _align returns for the raw offsets of a pass
BuildResult(tmp, map, orig_dur) ==
    LET result == Recenter([k \in 0..(Len(tmp) - 1) |-> tmp[k + 1]], map)
        pp == PadPre(result)
        tp == TrimPre(pp)
    IN  [pad_pre |-> pp, trim_pre |-> tp, orig_dur |-> orig_dur,
         pad_post |-> PadPost(pp, orig_dur), trim_post |-> TrimPost(tp, orig_dur)]

(***************************************************************************)
(* SyncDetector.align, between the passes.                                 *)
(***************************************************************************)
HintMargin == 5

\* the margin taken off without int()
RefinedHintNotTruncated(trim) ==
    IF trim - Sec(HintMargin) > 0 THEN trim - Sec(HintMargin) ELSE 0

\* int(x) of a float x given in ticks: whole seconds, rounded towards zero
IntTrunc(t) == IF t >= 0 THEN t \div TicksPerSec ELSE -((-t) \div TicksPerSec)

\* max(0.0, int(trim_pre[i] - 5.0)), as ticks
RefinedHint(trim) ==
    LET whole == IntTrunc(trim - Sec(HintMargin))
    IN  Sec(IF whole > 0 THEN whole ELSE 0)

RefinedMap(trim_pre) == [i \in DOMAIN trim_pre |-> RefinedHint(trim_pre[i])]

\* the request _extract_audio hands to communicate.media_to_mono_wave
Request(map, misalignment, rate, idx) ==
    [idx |-> idx, starttime_offset |-> Get(map, idx, 0),
     duration |-> Sec(misalignment * 2), sample_rate |-> rate]

(***************************************************************************)
(* main: --known_delay_ge_map.  The argument is absent, a string json      *)
(* cannot load (or whose keys int() rejects), or a JSON object; its keys   *)
(* become ints and its values stay seconds.                                *)
(***************************************************************************)
ParsedMap(arg) ==
    IF arg.kind = "json" THEN [k \in DOMAIN arg.map |-> Sec(arg.map[k])]
    ELSE EmptyMap

(***************************************************************************)
(* The state of one run of main.                                           *)
(***************************************************************************)
VARIABLES
    file_names,          \* args.file_names: how many files were passed
    hint_arg,            \* args.known_delay_ge_map
    arg_max_misalignment,\* args.max_misalignment, seconds
    event,               \* the recorded scene: landmarks (bin, instant in ticks)
    start,               \* per file: the instant of the scene its recording starts at
    length,              \* per file: its true duration, ticks
    pc,                  \* where the run is
    err,                 \* the exception that ended the run, "none" if none
    working_dir,         \* self._working_dir: "none", "exists", "removed"
    known_delay_ge_map,  \* self._known_delay_ge_map, ticks
    max_misalignment,    \* self._max_misalignment, seconds
    orig_infos,          \* self._orig_infos: file index -> probed duration
    pass,                \* "coarse" or "fine": which _align call is running
    i,                   \* the loop variable of _align
    ft_dict1,            \* the reference summary
    ft_dict2,            \* the summary of file i + 1
    tmp_result,          \* the raw offsets gathered so far
    aligned,             \* align's locals pad_pre, trim_pre, orig_dur, pad_post, trim_post
    result,              \* the edit list align returned, <<>> before
    requests             \* every decode request issued, tagged with its pass

vars == <<file_names, hint_arg, arg_max_misalignment, event, start, length, pc, err,
          working_dir, known_delay_ge_map, max_misalignment, orig_infos, pass, i,
          ft_dict1, ft_dict2, tmp_result, aligned, result, requests>>

inputs == <<file_names, hint_arg, arg_max_misalignment, event, start, length>>

Files == 0..(file_names - 1)

NoAligned == [pad_pre |-> EmptyMap, trim_pre |-> EmptyMap, orig_dur |-> EmptyMap,
              pad_post |-> EmptyMap, trim_post |-> EmptyMap]

Rate == IF pass = "coarse" THEN CoarseRate ELSE sample_rate

(***************************************************************************)
(* main, up to the with statement.                                         *)
(***************************************************************************)
\* json.loads or int(k) raises: the run ends before a detector exists
ParseFails ==
    /\ pc = "main"
    /\ hint_arg.kind = "unparsable"
    /\ pc' = "halted"
    /\ err' = "ValueError"
    /\ UNCHANGED <<inputs, working_dir, known_delay_ge_map, max_misalignment, orig_infos,
                   pass, i, ft_dict1, ft_dict2, tmp_result, aligned, result, requests>>

\* fewer than two files, or a file that does not exist: _bailout
Bailout ==
    /\ pc = "main"
    /\ hint_arg.kind # "unparsable"
    /\ pc' = "halted"
    /\ err' = "SystemExit"
    /\ UNCHANGED <<inputs, working_dir, known_delay_ge_map, max_misalignment, orig_infos,
                   pass, i, ft_dict1, ft_dict2, tmp_result, aligned, result, requests>>

\* SyncDetector(...): __init__ and __enter__
Construct ==
    /\ pc = "main"
    /\ hint_arg.kind # "unparsable"
    /\ file_names >= 2
    /\ working_dir' = "exists"
    /\ max_misalignment' = arg_max_misalignment
    /\ known_delay_ge_map' = ParsedMap(hint_arg)
    /\ orig_infos' = EmptyMap
    /\ pass' = "coarse"
    /\ pc' = "first"
    /\ UNCHANGED <<inputs, err, i, ft_dict1, ft_dict2, tmp_result, aligned, result, requests>>

(***************************************************************************)
(* SyncDetector._align.                                                    *)
(***************************************************************************)
Issue(idx) ==
    requests' = requests \cup
        {[pass |-> pass, req |-> Request(known_delay_ge_map, max_misalignment, Rate, idx)]}

\* rate, ft_dict1 = _each(0), the decoder and the summary builder giving ft
ExtractFirst(ft) ==
    /\ pc = "first"
    /\ Issue(0)
    /\ ft_dict1' = ft
    /\ tmp_result' = <<0>>
    /\ i' = 0
    /\ pc' = "next"
    /\ UNCHANGED <<inputs, err, working_dir, known_delay_ge_map, max_misalignment,
                   orig_infos, pass, ft_dict2, aligned, result>>

\* rate, ft_dict2 = _each(i + 1)
ExtractNext(ft) ==
    /\ pc = "next"
    /\ Issue(i + 1)
    /\ ft_dict2' = ft
    /\ pc' = "delay"
    /\ UNCHANGED <<inputs, err, working_dir, known_delay_ge_map, max_misalignment,
                   orig_infos, pass, i, ft_dict1, tmp_result, aligned, result>>

\* communicate.media_to_mono_wave or read_audio raises
DecodeFails ==
    /\ pc \in {"first", "next"}
    /\ Issue(IF pc = "first" THEN 0 ELSE i + 1)
    /\ err' = "DecodeError"
    /\ pc' = "exit"
    /\ UNCHANGED <<inputs, working_dir, known_delay_ge_map, max_misalignment, orig_infos,
                   pass, i, ft_dict1, ft_dict2, tmp_result, aligned, result>>

\* delay = _find_delay(ft_dict1, ft_dict2) raises
DelayFails ==
    /\ pc = "delay"
    /\ NoMatch(ft_dict1, ft_dict2)
    /\ err' = "NoMatch"
    /\ pc' = "exit"
    /\ UNCHANGED <<inputs, working_dir, known_delay_ge_map, max_misalignment, orig_infos,
                   pass, i, ft_dict1, ft_dict2, tmp_result, aligned, result, requests>>

\* the rest of the loop body: tmp_result.append(-seconds)
Delay ==
    /\ pc = "delay"
    /\ ~NoMatch(ft_dict1, ft_dict2)
    /\ tmp_result' = Append(tmp_result, -DelaySeconds(find_delay(ft_dict1, ft_dict2), Rate))
    /\ i' = i + 1
    /\ pc' = IF i + 1 < file_names - 1 THEN "next" ELSE "build"
    /\ UNCHANGED <<inputs, err, working_dir, known_delay_ge_map, max_misalignment,
                   orig_infos, pass, ft_dict1, ft_dict2, aligned, result, requests>>

\* self._get_media_info(fn) raises for a file not probed yet
ProbeFails ==
    /\ pc = "build"
    /\ \E fn \in Files : fn \notin DOMAIN orig_infos
    /\ err' = "ProbeError"
    /\ pc' = "exit"
    /\ UNCHANGED <<inputs, working_dir, known_delay_ge_map, max_misalignment, orig_infos,
                   pass, i, ft_dict1, ft_dict2, tmp_result, aligned, result, requests>>

\* "build result" to the return of _align, and the assignment in align;
\* communicate.get_media_info reports the duration of a file not probed
\* yet.  The locals of _align end with the call.
Build ==
    /\ pc = "build"
    /\ orig_infos' = [fn \in Files |-> Get(orig_infos, fn, length[fn])]
    /\ aligned' = BuildResult(tmp_result, known_delay_ge_map, orig_infos')
    /\ i' = 0
    /\ ft_dict1' = EmptyMap
    /\ ft_dict2' = EmptyMap
    /\ tmp_result' = <<>>
    /\ pc' = IF pass = "coarse" THEN "refine" ELSE "return"
    /\ UNCHANGED <<inputs, err, working_dir, known_delay_ge_map, max_misalignment,
                   pass, result, requests>>

(***************************************************************************)
(* SyncDetector.align.                                                     *)
(***************************************************************************)
\* "update knwown map, and max_misalignment"
Refine ==
    /\ pc = "refine"
    /\ known_delay_ge_map' = RefinedMap(aligned.trim_pre)
    /\ max_misalignment' = FineMaxMisalignment
    /\ pass' = "fine"
    /\ pc' = "first"
    /\ UNCHANGED <<inputs, err, working_dir, orig_infos, i, ft_dict1, ft_dict2,
                   tmp_result, aligned, result, requests>>

EditList(a) ==
    [k \in 1..file_names |->
        [file |-> k - 1, trim |-> a.trim_pre[k - 1], pad |-> a.pad_pre[k - 1],
         orig_duration |-> a.orig_dur[k - 1], trim_post |-> a.trim_post[k - 1],
         pad_post |-> a.pad_post[k - 1]]]

Return ==
    /\ pc = "return"
    /\ result' = EditList(aligned)
    /\ pc' = "exit"
    /\ UNCHANGED <<inputs, err, working_dir, known_delay_ge_map, max_misalignment,
                   orig_infos, pass, i, ft_dict1, ft_dict2, tmp_result, aligned, requests>>

\* an __exit__ that leaves the directory behind
ExitKeepsDir ==
    /\ pc = "exit"
    /\ pc' = IF err = "none" THEN "done" ELSE "halted"
    /\ UNCHANGED <<inputs, err, working_dir, known_delay_ge_map, max_misalignment,
                   orig_infos, pass, i, ft_dict1, ft_dict2, tmp_result, aligned, result,
                   requests>>

\* SyncDetector.__exit__, with the result or with the exception in flight
Exit ==
    /\ pc = "exit"
    /\ working_dir' = "removed"
    /\ pc' = IF err = "none" THEN "done" ELSE "halted"
    /\ UNCHANGED <<inputs, err, known_delay_ge_map, max_misalignment, orig_infos, pass,
                   i, ft_dict1, ft_dict2, tmp_result, aligned, result, requests>>

(***************************************************************************)
(* The inputs of a run.                                                    *)
(***************************************************************************)
\* summaries the decoder and the summary builder may come back with: a
\* reference, the reference 5 and 22 windows later, and one in another bin
SummaryPool ==
    { [b \in {0} |-> <<0, 1>>],
      [b \in {0, 1} |-> IF b = 0 THEN <<5, 6>> ELSE <<3>>],
      [b \in {0} |-> <<22, 23>>],
      [b \in {1} |-> <<7>>] }

\* the durations of the files: all equal, or alternating
LengthPool ==
    { [fn \in 0..(MaxFiles - 1) |-> Sec(10)],
      [fn \in 0..(MaxFiles - 1) |-> IF fn % 2 = 0 THEN Sec(4) ELSE Sec(10)] }

Absent == [kind |-> "absent", map |-> EmptyMap]
Unparsable == [kind |-> "unparsable", map |-> EmptyMap]
Json(map) == [kind |-> "json", map |-> map]

\* --known_delay_ge_map and --max_misalignment: no hints, a string that
\* does not parse, hints for files of the list, a key above and a key below
\* the range of the list
ArgPool ==
    { [hints |-> Absent, misalignment |-> DefaultMaxMisalignment],
      [hints |-> Absent, misalignment |-> 30],
      [hints |-> Unparsable, misalignment |-> DefaultMaxMisalignment],
      [hints |-> Json([k \in {0, 1} |-> IF k = 0 THEN 2 ELSE 7]),
       misalignment |-> DefaultMaxMisalignment],
      [hints |-> Json([k \in {1} |-> 3]), misalignment |-> 30],
      [hints |-> Json([k \in {MaxFiles} |-> 3]), misalignment |-> DefaultMaxMisalignment],
      [hints |-> Json([k \in {-1} |-> 3]), misalignment |-> 30] }

Init ==
    /\ file_names \in 1..MaxFiles
    /\ \E a \in ArgPool : hint_arg = a.hints /\ arg_max_misalignment = a.misalignment
    /\ event = <<>>
    /\ start = EmptyMap
    /\ length \in LengthPool
    /\ pc = "main"
    /\ err = "none"
    /\ working_dir = "none"
    /\ known_delay_ge_map = EmptyMap
    /\ max_misalignment = 0
    /\ orig_infos = EmptyMap
    /\ pass = "coarse"
    /\ i = 0
    /\ ft_dict1 = EmptyMap
    /\ ft_dict2 = EmptyMap
    /\ tmp_result = <<>>
    /\ aligned = NoAligned
    /\ result = <<>>
    /\ requests = {}

\* the decoder is free: any summary of the pool
Next ==
    \/ ParseFails
    \/ Bailout
    \/ Construct
    \/ \E ft \in SummaryPool : ExtractFirst(ft)
    \/ \E ft \in SummaryPool : ExtractNext(ft)
    \/ DecodeFails
    \/ DelayFails
    \/ Delay
    \/ ProbeFails
    \/ Build
    \/ Refine
    \/ Return
    \/ Exit

Spec == Init /\ [][Next]_vars

(***************************************************************************)
(* Recordings of one scene.  The scene is a list of landmarks, each a      *)
(* frequency bin sounding at an instant, the loudest first; file idx       *)
(* records the scene from the instant start[idx] on, for length[idx].  The *)
(* decoder cuts the requested part out of the recording, and the summary   *)
(* builder files each landmark under the window its instant falls in.      *)
(* Scenes are sparse: no box of the builder holds more than maxes_per_box  *)
(* landmarks, so every landmark is retained.                               *)
(***************************************************************************)
box_width == 43

\* the landmarks of a track inside [from, from + span), re-timed to from
Cut(track, from, span) ==
    LET Inside(e) == from <= e.at /\ e.at < from + span
        kept == SelectSeq(track, Inside)
    IN  [k \in DOMAIN kept |-> [bin |-> kept[k].bin, at |-> kept[k].at - from]]

Recording(idx) == Cut(event, start[idx], length[idx])

\* communicate.media_to_mono_wave(file, starttime_offset, duration, rate)
Decode(idx, req) == Cut(Recording(idx), req.starttime_offset, req.duration)

\* the boxes are emptied in the order of their time index, each box with
\* its most intense point first
RECURSIVE ByBox(_, _)
ByBox(windows, boxes) ==
    IF boxes = {} THEN <<>>
    ELSE LET box_x == SetMin(boxes)
             InBox(x) == x \div box_width = box_x
         IN  SelectSeq(windows, InBox) \o ByBox(windows, boxes \ {box_x})

\* _mk_freq_trans_summary on the decoded part: bin -> window indices
Summarise(track, rate) ==
    [b \in {track[k].bin : k \in DOMAIN track} |->
        LET InBin(e) == e.bin = b
            mine == SelectSeq(track, InBin)
            windows == [k \in DOMAIN mine |-> mine[k].at \div Window(rate)]
        IN  ByBox(windows, {windows[k] \div box_width : k \in DOMAIN windows})]

\* what _each(idx) computes under the hints and the bound of a pass
Each(idx, map, misalignment, rate) ==
    Summarise(Decode(idx, Request(map, misalignment, rate, idx)), rate)

SceneSummary(idx) == Each(idx, known_delay_ge_map, max_misalignment, Rate)

\* scenes: three landmarks in three bins; four landmarks in one bin; two
\* bins with two landmarks each; one bin with a loud landmark at 8 s and a
\* fainter one at 7.5 s
EventPool ==
    { <<[bin |-> 0, at |-> 260925], [bin |-> 1, at |-> 310537], [bin |-> 2, at |-> 373012]>>,
      <<[bin |-> 0, at |-> 260925], [bin |-> 0, at |-> 275625], [bin |-> 0, at |-> 310537],
        [bin |-> 0, at |-> 373012]>>,
      <<[bin |-> 1, at |-> 275625], [bin |-> 0, at |-> 260925], [bin |-> 1, at |-> 373012],
        [bin |-> 0, at |-> 310537]>>,
      <<[bin |-> 0, at |-> Sec(8)], [bin |-> 0, at |-> 137812]>> }

\* the instants at which a recording may start: at once, 2 s, 7.05 s and
\* 7.6 s into the scene
StartPool == {0, Sec(2), Sec(7) + 1000, 139650}

\* the durations of the recordings: 30 s and 40 s alternating, or a second
\* file of 4 s only
SceneLengthPool ==
    { [fn \in 0..(MaxFiles - 1) |-> IF fn % 2 = 0 THEN Sec(30) ELSE Sec(40)],
      [fn \in 0..(MaxFiles - 1) |-> IF fn = 1 THEN Sec(4) ELSE Sec(40)] }

\* how long before the last file starts file idx started
Lead(idx) == ArrMax(start) - start[idx]

\* hints the user may know, in whole seconds
SceneHintPool ==
    {Absent} \cup {Json([k \in {key} |-> h]) : key \in 0..(MaxFiles - 1), h \in {2, 7}}
      \cup {Json([k \in {0, 1} |-> IF k = 0 THEN 2 ELSE 7])}

\* every hint is for a file of the list and no more than its lead
HintsFit(arg) ==
    \A k \in DOMAIN arg.map : k \in DOMAIN start /\ Sec(arg.map[k]) <= Lead(k)

SceneInit ==
    /\ file_names \in 2..MaxFiles
    /\ event \in EventPool
    /\ start \in [0..(file_names - 1) -> StartPool]
    /\ length \in SceneLengthPool
    /\ hint_arg \in SceneHintPool
    /\ HintsFit(hint_arg)
    /\ arg_max_misalignment \in {DefaultMaxMisalignment, 30}
    /\ pc = "main"
    /\ err = "none"
    /\ working_dir = "none"
    /\ known_delay_ge_map = EmptyMap
    /\ max_misalignment = 0
    /\ orig_infos = EmptyMap
    /\ pass = "coarse"
    /\ i = 0
    /\ ft_dict1 = EmptyMap
    /\ ft_dict2 = EmptyMap
    /\ tmp_result = <<>>
    /\ aligned = NoAligned
    /\ result = <<>>
    /\ requests = {}

\* the decoder returns what the files hold
SceneNext ==
    \/ Bailout
    \/ Construct
    \/ ExtractFirst(SceneSummary(0))
    \/ ExtractNext(SceneSummary(i + 1))
    \/ DecodeFails
    \/ DelayFails
    \/ Delay
    \/ ProbeFails
    \/ Build
    \/ Refine
    \/ Return
    \/ Exit

SceneSpec == SceneInit /\ [][SceneNext]_vars

(***************************************************************************)
(* Properties of the edit list.                                            *)
(***************************************************************************)
Returned == result # <<>>

Records == DOMAIN result

\* C1: every record align returns has pad, trim, orig_duration, pad_post
\* and trim_post all >= 0.
C1_NonNegative ==
    \A k \in Records :
        /\ result[k].pad >= 0
        /\ result[k].trim >= 0
        /\ result[k].orig_duration >= 0
        /\ result[k].pad_post >= 0
        /\ result[k].trim_post >= 0

\* three files, user hints, and something to pad and to trim at both ends
C1_Witness ==
    /\ Returned
    /\ file_names = 3
    /\ hint_arg.kind = "json"
    /\ \E k \in Records : result[k].pad > 0 /\ result[k].trim > 0
    /\ \E k \in Records : result[k].pad_post > 0
    /\ \E k \in Records : result[k].trim_post > 0

\* C2: in the output of a run the minimum of pad_pre is 0 and the minimum
\* of trim_post is 0.
C2_MinIsZero ==
    Returned =>
        /\ SetMin({result[k].pad : k \in Records}) = 0
        /\ SetMin({result[k].trim_post : k \in Records}) = 0

C2_Witness ==
    /\ Returned
    /\ SetMax({result[k].pad : k \in Records}) > 0
    /\ SetMax({result[k].trim_post : k \in Records}) > 0

Unpadded == {k \in Records : result[k].pad = 0}
Untrimmed == {k \in Records : result[k].trim_post = 0}
Kept(k) == result[k].orig_duration - result[k].trim

\* C3 as claimed: exactly one file has pad_pre = 0 and exactly one file has
\* trim_post = 0, ties included.
C3_ExactlyOne ==
    Returned => Cardinality(Unpadded) = 1 /\ Cardinality(Untrimmed) = 1

\* the re-centred raw offsets _align normalises
Offsets == Recenter([k \in 0..(Len(tmp_result) - 1) |-> tmp_result[k + 1]],
                    known_delay_ge_map)

\* C3 as amended: the files with pad_pre = 0 are exactly the files whose raw
\* offset is minimal, the files with trim_post = 0 exactly the files whose
\* trimmed duration is minimal; there is at least one of each, and several
\* when offsets or trimmed durations tie.
C3_AllMinimal ==
    /\ [](Returned =>
            /\ Unpadded # {}
            /\ Untrimmed # {}
            /\ \A k \in Records :
                   result[k].trim_post = 0 <=> \A j \in Records : Kept(k) <= Kept(j))
    /\ [][pc = "build" /\ pc' # "exit" =>
            \A k \in DOMAIN Offsets :
                aligned'.pad_pre[k] = 0 <=> Offsets[k] = ArrMin(Offsets)]_vars

\* two files tie for the minimal offset and two for the minimal trimmed duration
C3_Witness ==
    /\ Returned
    /\ file_names = 3
    /\ Cardinality(Unpadded) = 2
    /\ Cardinality(Untrimmed) = 2

\* C4 as claimed: for two or more files, no file has both pad_pre and
\* trim_pre nonzero.
C4_NeverBoth ==
    \A k \in Records : result[k].pad = 0 \/ result[k].trim = 0

\* C4 as amended: pad_pre + trim_pre of every file is the largest pad_pre,
\* so with two files no file has both nonzero, and with more files exactly
\* the files strictly between the minimal and the maximal offset have.
C4_PadPlusTrim ==
    Returned =>
        /\ \A k \in Records :
               result[k].pad + result[k].trim = SetMax({result[j].pad : j \in Records})
        /\ file_names = 2 => \A k \in Records : result[k].pad = 0 \/ result[k].trim = 0

C4_Witness ==
    /\ Returned
    /\ file_names = 2
    /\ \E k \in Records : result[k].pad > 0
    /\ \E k \in Records : result[k].trim > 0

(***************************************************************************)
(* Failures.                                                               *)
(***************************************************************************)
\* C7: the estimator fails exactly when the two summaries share no
\* frequency bin; the failure, for any file and in either pass, ends align
\* with no edit list, and after a failure in the coarse pass no fine-pass
\* decode is ever requested.
C7_NoMatchAborts ==
    /\ err = "NoMatch" =>
          /\ CommonKeys(ft_dict1, ft_dict2) = {}
          /\ result = <<>>
          /\ pc \in {"exit", "halted"}
          /\ pass = "coarse" => \A r \in requests : r.pass = "coarse"
    /\ (pc \in {"next", "build"} /\ i >= 1) => CommonKeys(ft_dict1, ft_dict2) # {}

\* the third file of three fails to match in the fine pass, after the run ended
C7_Witness ==
    /\ err = "NoMatch"
    /\ pc = "halted"
    /\ pass = "fine"
    /\ i = 1
    /\ ft_dict1 # EmptyMap
    /\ ft_dict2 # EmptyMap

Malformed ==
    \/ hint_arg.kind = "unparsable"
    \/ \E k \in DOMAIN hint_arg.map : k < 0 \/ k >= file_names

\* C8: a run whose known-delay hints are unparsable or name a file index
\* outside the file list issues no decode request.
C8_MalformedNeverDecodes ==
    Malformed => requests = {}

\* C9: the working directory exists from the construction of the detector
\* on and is released on every exit path: every way out of the with block
\* runs __exit__, and no run ends, with a result or with any failure, with
\* the directory in place.
C9_DirReleased ==
    /\ pc \in {"done", "halted"} => working_dir # "exists"
    /\ pc \in {"first", "next", "delay", "build", "refine", "return", "exit"}
          => working_dir = "exists"
    /\ pc = "exit" => ENABLED Exit

\* the directory is gone after a good run and after each kind of failure
C9_Witness ==
    /\ working_dir = "removed"
    /\ pc = "halted"
    /\ err = "ProbeError"

InFinePass == pass = "fine" /\ pc \in {"first", "next", "delay", "build"}

MarginOff(trim) == IF trim - Sec(HintMargin) > 0 THEN trim - Sec(HintMargin) ELSE 0

\* C10 as claimed: the hints of the fine pass are max(0, coarse trim_pre - 5.0).
C10_HintIsMarginOff ==
    InFinePass =>
        \A k \in Files : known_delay_ge_map[k] = MarginOff(aligned.trim_pre[k])

\* C10 as amended: the hint of file i in the fine pass is max(0, coarse
\* trim_pre[i] - 5.0) cut down to whole seconds, for every file and no other
\* key, and the bound is 15: every fine-pass decode request starts at that
\* hint and lasts 30 seconds, every coarse-pass request starts at the
\* caller's hint (0 if unset) and lasts twice the caller's bound.
C10_HintIsWholeSeconds ==
    /\ InFinePass =>
          /\ DOMAIN known_delay_ge_map = Files
          /\ \A k \in Files :
                \E whole \in 0..(2 * DefaultMaxMisalignment) :
                   /\ known_delay_ge_map[k] = Sec(whole)
                   /\ Sec(whole) <= MarginOff(aligned.trim_pre[k])
                   /\ MarginOff(aligned.trim_pre[k]) < Sec(whole + 1)
          /\ max_misalignment = 15
    /\ \A r \in requests :
          IF r.pass = "fine"
          THEN /\ pass = "fine"
               /\ r.req.starttime_offset = known_delay_ge_map[r.req.idx]
               /\ r.req.duration = Sec(30)
               /\ r.req.sample_rate = sample_rate
          ELSE /\ r.req.starttime_offset = Get(ParsedMap(hint_arg), r.req.idx, 0)
               /\ r.req.duration = Sec(2 * arg_max_misalignment)
               /\ r.req.sample_rate = CoarseRate

\* a fine-pass request that starts one second in, for a coarse trim_pre of
\* 6.13 s
C10_Witness ==
    /\ InFinePass
    /\ \E r \in requests :
          /\ r.pass = "fine"
          /\ r.req.starttime_offset = Sec(1)
          /\ aligned.trim_pre[r.req.idx] > Sec(6)

(***************************************************************************)
(* Recordings of one scene.                                                *)
(***************************************************************************)
Abs(x) == IF x >= 0 THEN x ELSE -x

\* how much later than file 0 file 1 starts
LateBy == start[1] - start[0]

\* two files, no hints, and the second holds what the first holds from
\* LateBy on
LateStart ==
    /\ file_names = 2
    /\ hint_arg.kind = "absent"
    /\ LateBy > 0
    /\ Recording(1) # <<>>
    /\ Recording(1) = Cut(Recording(0), LateBy, length[0])

\* the raw offsets of a whole pass under given hints and bound
PassOffsets(map, misalignment, rate) ==
    LET ft1 == Each(0, map, misalignment, rate)
    IN  [k \in 1..file_names |->
            IF k = 1 THEN 0
            ELSE -DelaySeconds(find_delay(ft1, Each(k - 1, map, misalignment, rate)), rate)]

PassMatches(map, misalignment, rate) ==
    LET ft1 == Each(0, map, misalignment, rate)
    IN  \A k \in 1..(file_names - 1) : ~NoMatch(ft1, Each(k, map, misalignment, rate))

\* one delay has more votes than every other
SingleWinner(freqs_dict_orig, freqs_dict_sample) ==
    LET deltas == DeltaList(CommonKeys(freqs_dict_orig, freqs_dict_sample),
                            freqs_dict_orig, freqs_dict_sample)
    IN  \E d \in Range(deltas) :
           \A e \in Range(deltas) \ {d} : Votes(deltas, e) < Votes(deltas, d)

\* every vote of a pass under given hints and bound has a single winner
ClearPass(map, misalignment, rate) ==
    LET ft1 == Each(0, map, misalignment, rate)
    IN  \A k \in 1..(file_names - 1) :
           SingleWinner(ft1, Each(k, map, misalignment, rate))

Durations == [fn \in Files |-> length[fn]]

\* align on the same files and arguments with no known-delay hints: the
\* hints it refines from its coarse pass, and what its fine pass returns
UnhintedMap ==
    RefinedMap(BuildResult(PassOffsets(EmptyMap, arg_max_misalignment, CoarseRate),
                           EmptyMap, Durations).trim_pre)

FineResult(map) ==
    BuildResult(PassOffsets(map, FineMaxMisalignment, sample_rate), map, Durations)

Hinted == hint_arg.kind = "json"

=============================================================================
